---- MODULE Spec2Model ----
(***************************************************************************)
(* A model of generate_topology.py, the WMF mini-lab topology generator.   *)
(*                                                                         *)
(* Python strings are sequences of one-character strings, so that the name *)
(* translations (replace, split, comparison) are computed as the code      *)
(* computes them.  None is the empty sequence; a dict with the keys        *)
(* device/name of a connected endpoint is the pair <<device, name>> and    *)
(* the empty dict is <<>>.                                                 *)
(***************************************************************************)
EXTENDS Integers, Sequences, FiniteSets, TLC

VARIABLES devices,                \* get_devices(): the inventory snapshot
          lab_device_names,       \* args.hosts.split(",")
          pc,                     \* position of main(): scan, render, synth, dump, done, raised
          di, ii,                 \* loop positions: device index, interface index
          nodes,                  \* clab_topo['topology']['nodes']
          device_vendors,         \* device_vendors dict
          connected_interfaces,   \* connected_interfaces defaultdict(list)
          links,                  \* links set
          topo_links,             \* clab_topo['topology']['links']
          outfile,                \* lines written to output/start.sh
          err,                    \* the exception that ended the run, "" if none
          call, ret               \* a call of get_link_tupple and its mirrored call

vars == <<devices, lab_device_names, pc, di, ii, nodes, device_vendors,
          connected_interfaces, links, topo_links, outfile, err, call, ret>>

----------------------------------------------------------------------------
(* Strings *)

\* Code points of the characters the model's names are made of.
Ord(c) ==
  CASE c = "-" -> 45 [] c = "." -> 46 [] c = "/" -> 47 [] c = "0" -> 48
    [] c = "1" -> 49 [] c = "2" -> 50 [] c = "7" -> 55 [] c = ":" -> 58
    [] c = "_" -> 95 [] c = "e" -> 101 [] c = "l" -> 108 [] c = "o" -> 111
    [] c = "r" -> 114 [] c = "x" -> 120

\* Python's str < str: lexicographic by code point, a proper prefix is smaller.
RECURSIVE StrLess(_, _)
StrLess(a, b) ==
  IF b = <<>> THEN FALSE
  ELSE IF a = <<>> THEN TRUE
  ELSE IF Head(a) = Head(b) THEN StrLess(Tail(a), Tail(b))
  ELSE Ord(Head(a)) < Ord(Head(b))

\* str.replace(old, new) for a one-character old.
ReplaceChar(s, old, new) == [k \in 1..Len(s) |-> IF s[k] = old THEN new ELSE s[k]]

\* Whether t occurs in s at position k.
MatchAt(s, t, k) == /\ k + Len(t) - 1 <= Len(s)
                    /\ \A j \in 1..Len(t) : s[k + j - 1] = t[j]

\* str.replace(old, new) for a non-empty old: leftmost non-overlapping occurrences.
RECURSIVE ReplaceFrom(_, _, _, _)
ReplaceFrom(s, old, new, k) ==
  IF k > Len(s) THEN <<>>
  ELSE IF MatchAt(s, old, k) THEN new \o ReplaceFrom(s, old, new, k + Len(old))
  ELSE <<s[k]>> \o ReplaceFrom(s, old, new, k + 1)

Replace(s, old, new) == ReplaceFrom(s, old, new, 1)

\* s.split(sep)[-1] for a one-character sep: what follows the last sep, or all of s.
RECURSIVE SplitLast(_, _)
SplitLast(s, sep) ==
  IF s = <<>> THEN <<>>
  ELSE IF s[Len(s)] = sep THEN <<>>
  ELSE SplitLast(SubSeq(s, 1, Len(s) - 1), sep) \o <<s[Len(s)]>>

Digits == {"0", "1", "2", "7"}

DigitVal(c) == Ord(c) - 48

\* Whether int(s) accepts s: digits, single underscores allowed between digits.
\* (Signs and white space, which int() also accepts, are not in the alphabet.)
IsIntLiteral(s) ==
  /\ s # <<>>
  /\ \A k \in 1..Len(s) : s[k] \in Digits \cup {"_"}
  /\ s[1] # "_" /\ s[Len(s)] # "_"
  /\ \A k \in 1..(Len(s) - 1) : ~(s[k] = "_" /\ s[k + 1] = "_")

\* int(s) for an accepted s.
RECURSIVE IntValue(_)
IntValue(s) ==
  IF s = <<>> THEN 0
  ELSE IF s[Len(s)] = "_" THEN IntValue(SubSeq(s, 1, Len(s) - 1))
  ELSE 10 * IntValue(SubSeq(s, 1, Len(s) - 1)) + DigitVal(s[Len(s)])

----------------------------------------------------------------------------
(* The pure functions of the source *)

\* get_link_tupple with the interfaces of the two ends exchanged.
get_link_tupple_crossed(a_dev, a_int, b_dev, b_int) ==
  IF StrLess(a_dev, b_dev) THEN <<a_dev, b_int, b_dev, a_int>>
  ELSE <<b_dev, a_int, a_dev, b_int>>

get_link_tupple(a_dev, a_int, b_dev, b_int) ==
  IF StrLess(a_dev, b_dev) THEN <<a_dev, a_int, b_dev, b_int>>
  ELSE <<b_dev, b_int, a_dev, a_int>>

get_nokia_name(juniper_name) == <<"e", "1", "-">> \o SplitLast(juniper_name, "/")

get_valid_juniper_name(juniper_name) ==
  ReplaceChar(ReplaceChar(juniper_name, "/", "_"), ":", "_")

----------------------------------------------------------------------------
(* main(): link building, lines 46-68 *)

Lookup(dict, key, default) == IF key \in DOMAIN dict THEN dict[key] ELSE default

Put(dict, key, value) == [k \in DOMAIN dict \cup {key} |-> IF k = key THEN value ELSE dict[k]]

\* Lines 60-61 without the test of the peer against the requested names.
QualifiesAnyPeer(interface, names) ==
  /\ interface.connected_endpoints # <<>>
  /\ Len(interface.connected_endpoints[1]) > 0

\* Lines 60-61, negated: the interface has a connected endpoint, the endpoint is an
\* interface (a non-empty dict), and its device is one of the requested names.
Qualifies(interface, names) ==
  /\ interface.connected_endpoints # <<>>
  /\ Len(interface.connected_endpoints[1]) > 0
  /\ interface.connected_endpoints[1][1] \in names

\* Lines 50-56: the node entry a role gets, if any.
NodesAfter(ns, device) ==
  IF device.role = "server" THEN Put(ns, device.name, [kind |-> "linux", type |-> ""])
  ELSE IF device.role = "asw" THEN Put(ns, device.name, [kind |-> "nokia_srlinux", type |-> "ixrd2l"])
  ELSE IF device.role = "cr" THEN Put(ns, device.name, [kind |-> "crpd", type |-> ""])
  ELSE ns

\* Lines 48, 54: the vendor recorded for a device.
VendorOf(device) == IF device.role = "asw" THEN "nokia" ELSE device.manufacturer

\* The position of the scanning loops after interface i of device d (0: the device's head).
ScanNext(d, i) ==
  IF i < Len(devices[d].interfaces) THEN [pc |-> "scan", di |-> d, ii |-> i + 1]
  ELSE IF d < Len(devices) THEN [pc |-> "scan", di |-> d + 1, ii |-> 0]
  ELSE [pc |-> "render", di |-> 1, ii |-> 0]

\* Lines 46-56: the head of one iteration of the device loop.
ScanDevice ==
  /\ pc = "scan" /\ ii = 0
  /\ LET device == devices[di]
         nxt == ScanNext(di, 0)
     IN /\ device_vendors' = Put(device_vendors, device.name, VendorOf(device))
        /\ nodes' = NodesAfter(nodes, device)
        /\ pc' = nxt.pc /\ di' = nxt.di /\ ii' = nxt.ii
  /\ UNCHANGED <<devices, lab_device_names, connected_interfaces, links,
                 topo_links, outfile, err, call, ret>>

\* Lines 59-68: one iteration of the interface loop.
ScanInterface ==
  /\ pc = "scan" /\ ii > 0
  /\ LET device == devices[di]
         interface == device.interfaces[ii]
         nxt == ScanNext(di, ii)
     IN /\ IF Qualifies(interface, lab_device_names)
           THEN /\ connected_interfaces' =
                     Put(connected_interfaces, device.name,
                         Append(Lookup(connected_interfaces, device.name, <<>>),
                                interface.name))
                /\ links' = links \cup
                     {get_link_tupple(device.name, interface.name,
                                      interface.connected_endpoints[1][1],
                                      interface.connected_endpoints[1][2])}
           ELSE UNCHANGED <<connected_interfaces, links>>
        /\ pc' = nxt.pc /\ di' = nxt.di /\ ii' = nxt.ii
  /\ UNCHANGED <<devices, lab_device_names, nodes, device_vendors,
                 topo_links, outfile, err, call, ret>>

----------------------------------------------------------------------------
(* main(): link rendering, lines 71-72, and get_clab_link *)

\* Lines 98-101: the interface name as the vendor's emulated kind names it.
ClabIntName(vendor, int_name) ==
  LET j == IF vendor = "juniper" THEN get_valid_juniper_name(int_name) ELSE int_name
  IN IF vendor = "nokia" THEN get_nokia_name(j) ELSE j

\* Line 102: f"{device_name}:{int_name}".
Endpoint(device_name, int_name) == device_name \o <<":">> \o int_name

get_clab_link(link_tupple, vendors) ==
  [endpoints |-> << Endpoint(link_tupple[1], ClabIntName(vendors[link_tupple[1]], link_tupple[2])),
                    Endpoint(link_tupple[3], ClabIntName(vendors[link_tupple[3]], link_tupple[4])) >>]

\* device_vendors[device_name] raises KeyError for a device the inventory did not hold.
LinkRaises(link_tupple, vendors) ==
  link_tupple[1] \notin DOMAIN vendors \/ link_tupple[3] \notin DOMAIN vendors

\* The orders in which a set may be iterated.
Orders(S) == {s \in [1..Cardinality(S) -> S] : \A i, j \in 1..Cardinality(S) : s[i] = s[j] => i = j}

\* Lines 71-72: every link of the set is rendered, in the set's iteration order.
RenderLinks ==
  /\ pc = "render"
  /\ IF \E t \in links : LinkRaises(t, device_vendors)
     THEN /\ pc' = "raised" /\ err' = "KeyError"
          /\ UNCHANGED <<topo_links, di, ii>>
     ELSE /\ \E order \in Orders(links) :
               topo_links' = [k \in 1..Len(order) |-> get_clab_link(order[k], device_vendors)]
          /\ pc' = "synth"
          /\ di' = 1 /\ ii' = 0
          /\ UNCHANGED err
  /\ UNCHANGED <<devices, lab_device_names, nodes, device_vendors,
                 connected_interfaces, links, outfile, call, ret>>

----------------------------------------------------------------------------
(* generate_start_script, lines 169-206 *)

LO0 == <<"l", "o", "0">>
LO == <<"l", "o">>

\* One line of output/start.sh.  op is the command of the line: "arp" (sysctl
\* arp_ignore), "addr" (ip addr add), "vlan" (ip link add ... type vlan), "up"
\* (ip link set ... up) or "blank"; device is the node whose namespace the line
\* runs in.  src is not text of the line: it records the index of the interface
\* whose iteration wrote it (0 for the device's own lines).
Line(op, device_name, interface_name, address, parent_name, vlan, src) ==
  [op |-> op, device |-> device_name, interface |-> interface_name,
   address |-> address, parent |-> parent_name, vlan |-> vlan, src |-> src]

\* Line 174 with another role's slug.
IsSwitchOtherSlug(device) == device.role = "switch"

\* Line 174: the devices that get no commands.
IsSwitch(device) == device.role = "asw"

\* Lines 178-179.
ArpLine(device) == Line("arp", device.name, <<>>, <<>>, <<>>, 0, 0)

\* Line 206.
BlankLine(device) == Line("blank", device.name, <<>>, <<>>, <<>>, 0, 0)

\* Line 184: the interface is configured under its own name.
IsDirect(interface, connected) ==
  \/ \E k \in 1..Len(connected) : connected[k] = interface.name
  \/ interface.name = LO0

\* Line 190 without the test of the parent against the connected interfaces.
IsSubInterfaceAnyParent(interface, connected) == interface.parent # <<>>

\* Line 190: the interface hangs off a connected parent.
IsSubInterface(interface, connected) ==
  /\ interface.parent # <<>>
  /\ \E k \in 1..Len(connected) : connected[k] = interface.parent[1]

\* Lines 185-189: the name after "dev" in the address lines of a direct interface.
DirectName(device, interface) ==
  LET n == IF device.manufacturer = "juniper"
           THEN get_valid_juniper_name(interface.name) ELSE interface.name
  IN Replace(n, LO0, LO)

\* Lines 187-189.
DirectLines(device, interface, src) ==
  [k \in 1..Len(interface.ip_addresses) |->
     Line("addr", device.name, DirectName(device, interface),
          interface.ip_addresses[k], <<>>, 0, src)]

\* Line 194: the text handed to int().
VlanText(interface) == SplitLast(get_valid_juniper_name(interface.name), ".")

\* Lines 192-204 with the link set up before the addresses are added.
VlanLinesUpFirst(device, interface, src) ==
  LET interface_name == get_valid_juniper_name(interface.name)
      parent_name == get_valid_juniper_name(interface.parent[1])
      vlan == IntValue(VlanText(interface))
  IN <<Line("vlan", device.name, interface_name, <<>>, parent_name, vlan, src),
       Line("up", device.name, interface_name, <<>>, <<>>, 0, src)>>
     \o [k \in 1..Len(interface.ip_addresses) |->
           Line("addr", device.name, interface_name, interface.ip_addresses[k], <<>>, 0, src)]

\* Lines 192-204.
VlanLines(device, interface, src) ==
  LET interface_name == get_valid_juniper_name(interface.name)
      parent_name == get_valid_juniper_name(interface.parent[1])
      vlan == IntValue(VlanText(interface))
  IN <<Line("vlan", device.name, interface_name, <<>>, parent_name, vlan, src)>>
     \o [k \in 1..Len(interface.ip_addresses) |->
           Line("addr", device.name, interface_name, interface.ip_addresses[k], <<>>, 0, src)]
     \o <<Line("up", device.name, interface_name, <<>>, <<>>, 0, src)>>

\* Lines 181-204 with the sysctl of lines 178-179 written inside the interface loop.
InterfaceLinesWithArp(device, interface, connected, src) ==
  <<Line("arp", device.name, <<>>, <<>>, <<>>, 0, src)>>
  \o (IF interface.ip_addresses = <<>> THEN <<>>
      ELSE IF IsDirect(interface, connected) THEN DirectLines(device, interface, src)
      ELSE IF IsSubInterface(interface, connected) THEN VlanLines(device, interface, src)
      ELSE <<>>)

\* Lines 181-204: what one iteration of the interface loop writes.
InterfaceLines(device, interface, connected, src) ==
  IF interface.ip_addresses = <<>> THEN <<>>
  ELSE IF IsDirect(interface, connected) THEN DirectLines(device, interface, src)
  ELSE IF IsSubInterface(interface, connected) THEN VlanLines(device, interface, src)
  ELSE <<>>

\* Line 194 raises ValueError when the text after the last "." is no integer.
InterfaceRaises(interface, connected) ==
  /\ interface.ip_addresses # <<>>
  /\ ~IsDirect(interface, connected)
  /\ IsSubInterface(interface, connected)
  /\ ~IsIntLiteral(VlanText(interface))

\* The position of the loops after interface i of device d (0: the device's head,
\* or the whole of a skipped device).
SynthNext(d, i) ==
  IF ~IsSwitch(devices[d]) /\ i < Len(devices[d].interfaces)
  THEN [pc |-> "synth", di |-> d, ii |-> i + 1]
  ELSE IF d < Len(devices) THEN [pc |-> "synth", di |-> d + 1, ii |-> 0]
  ELSE [pc |-> "dump", di |-> 1, ii |-> 0]

\* Line 206 follows the last interface of a device.
EndOfDevice(device, i) == IF i = Len(device.interfaces) THEN <<BlankLine(device)>> ELSE <<>>

\* Lines 173-179 (and 206 for a device without interfaces).
SynthDevice ==
  /\ pc = "synth" /\ ii = 0
  /\ LET device == devices[di]
         nxt == SynthNext(di, 0)
     IN /\ outfile' = IF IsSwitch(device) THEN outfile
                      ELSE outfile \o <<ArpLine(device)>> \o EndOfDevice(device, 0)
        /\ pc' = nxt.pc /\ di' = nxt.di /\ ii' = nxt.ii
  /\ UNCHANGED <<devices, lab_device_names, nodes, device_vendors,
                 connected_interfaces, links, topo_links, err, call, ret>>

\* Lines 180-206: one iteration of the interface loop.
SynthInterface ==
  /\ pc = "synth" /\ ii > 0
  /\ LET device == devices[di]
         interface == device.interfaces[ii]
         connected == Lookup(connected_interfaces, device.name, <<>>)
         nxt == SynthNext(di, ii)
     IN IF InterfaceRaises(interface, connected)
        THEN /\ pc' = "raised" /\ err' = "ValueError"
             /\ UNCHANGED <<outfile, di, ii>>
        ELSE /\ outfile' = outfile \o InterfaceLines(device, interface, connected, ii)
                                   \o EndOfDevice(device, ii)
             /\ pc' = nxt.pc /\ di' = nxt.di /\ ii' = nxt.ii
             /\ UNCHANGED err
  /\ UNCHANGED <<devices, lab_device_names, nodes, device_vendors,
                 connected_interfaces, links, topo_links, call, ret>>

\* Lines 77-78: the topology document is written.
DumpTopology ==
  /\ pc = "dump"
  /\ pc' = "done"
  /\ UNCHANGED <<devices, lab_device_names, di, ii, nodes, device_vendors,
                 connected_interfaces, links, topo_links, outfile, err, call, ret>>

Next == \/ ScanDevice
        \/ ScanInterface
        \/ RenderLinks
        \/ SynthDevice
        \/ SynthInterface
        \/ DumpTopology

----------------------------------------------------------------------------
(* Inventories *)

\* The most interfaces an inventory holds, all devices together.
MaxIfs == 2

R1 == <<"r", "1">>
R10 == <<"r", "1", "0">>
R2 == <<"r", "2">>
DevNames == {R1, R10, R2}

XE1 == <<"x", "/", "1">>
XE1_7 == <<"x", "/", "1", ".", "7">>
XLO0 == <<"x", ":", "l", "o", "0">>
IfNames == {XE1, XE1_7, LO0, XLO0}

AddrLists == {<<>>, <<"10.0.0.2/31">>, <<"10.0.0.2/31", "2001:db8::2/64">>}

Device(name, role, manufacturer, interfaces) ==
  [name |-> name, role |-> role, manufacturer |-> manufacturer, interfaces |-> interfaces]

Interface(name, parent, ip_addresses, connected_endpoints) ==
  [name |-> name, parent |-> parent, ip_addresses |-> ip_addresses,
   connected_endpoints |-> connected_endpoints]

\* The ways to give n devices interface lists from a pool, at most budget
\* interfaces in all.
RECURSIVE Allocations(_, _, _)
Allocations(n, budget, pool) ==
  IF n = 0 THEN {<<>>}
  ELSE UNION {{<<f>> \o rest : f \in [1..k -> pool],
                               rest \in Allocations(n - 1, budget - k, pool)} :
              k \in 0..budget}

\* The devices of a sequence with the interface lists of an allocation.
WithInterfaces(heads, ifs) ==
  [k \in 1..Len(heads) |->
     Device(heads[k].name, heads[k].role, heads[k].manufacturer, ifs[k])]

\* The state main() starts in, once the inventory has been fetched.
Start(inventory, requested) ==
  /\ devices = inventory
  /\ lab_device_names = requested
  /\ pc = "scan"
  /\ di = 1 /\ ii = 0
  /\ nodes = <<>> /\ device_vendors = <<>> /\ connected_interfaces = <<>>
  /\ links = {} /\ topo_links = <<>> /\ outfile = <<>> /\ err = ""
  /\ call = <<>> /\ ret = <<>>

(* Inventories for the link builder: one or two devices in either order, at most
   MaxIfs interfaces in all, the interfaces differing in what the builder reads:
   their name and their connected endpoint.  r2 is not always requested. *)

BuildKind(n) ==
  IF n = R1 THEN Device(n, "cr", "juniper", <<>>)
  ELSE IF n = R10 THEN Device(n, "asw", "juniper", <<>>)
  ELSE Device(n, "pdu", "nokia", <<>>)

BuildHeads ==
  {<<BuildKind(a)>> : a \in DevNames}
  \cup {<<BuildKind(p[1]), BuildKind(p[2])>> : p \in {q \in DevNames \X DevNames : q[1] # q[2]}}

BuildEndpoints ==
  {<<>>, << <<>> >>, << <<R1, LO0>> >>} \cup {<< <<d, XE1>> >> : d \in DevNames}

BuildInterfaces ==
  {Interface(n, <<>>, <<>>, ce) : n \in {XE1, LO0}, ce \in BuildEndpoints}

InitBuild ==
  \E heads \in BuildHeads :
    \E ifs \in Allocations(Len(heads), MaxIfs, BuildInterfaces) :
      \E requested \in {{R1, R10}, {R1, R10, R2}} :
        Start(WithInterfaces(heads, ifs), requested)

SpecBuild == InitBuild /\ [][Next]_vars

(* Inventories for the start script: device r1, of several roles and vendors,
   with at most MaxIfs interfaces, and its peer r2, of a role that gets no
   node, before or after it.  x/1 is the physical interface, cabled to r2 or
   not, with or without addresses; x/1.7 and lo0 are logical and have no
   cable; x:lo0 may be cabled; every interface but x/1 may name x/1 as its
   parent and has an address (lo0 and x:lo0 exactly one). *)

SynthKinds ==
  {<<"cr", "juniper">>, <<"cr", "nokia">>, <<"cr", "dell">>,
   <<"server", "juniper">>, <<"server", "dell">>, <<"asw", "juniper">>}

SynthInterfaces ==
  {i \in {Interface(n, p, a, ce) :
            n \in IfNames, p \in {<<>>, <<XE1>>}, a \in AddrLists,
            ce \in {<<>>, << <<R2, XE1>> >>}} :
     /\ i.name = XE1 => i.parent = <<>>
     /\ i.name # XE1 => i.ip_addresses # <<>>
     /\ i.name \in {XE1_7, LO0} => i.connected_endpoints = <<>>
     /\ i.name \in {LO0, XLO0} => Len(i.ip_addresses) = 1}

InitSynth ==
  \E kind \in SynthKinds :
    \E ifs \in Allocations(1, MaxIfs, SynthInterfaces) :
      \E first \in BOOLEAN :
        LET a == WithInterfaces(<<Device(R1, kind[1], kind[2], <<>>)>>, ifs)
            b == <<Device(R2, "pdu", "dell", <<>>)>>
        IN Start(IF first THEN a \o b ELSE b \o a, {R1, R10, R2})

SpecSynth == InitSynth /\ [][Next]_vars

(* Calls of get_link_tupple: every pair of endpoints, and the call mirrored. *)

InitCanon ==
  /\ call \in DevNames \X IfNames \X DevNames \X IfNames
  /\ ret = <<>>
  /\ pc = "call"
  /\ devices = <<>> /\ lab_device_names = {}
  /\ di = 1 /\ ii = 0
  /\ nodes = <<>> /\ device_vendors = <<>> /\ connected_interfaces = <<>>
  /\ links = {} /\ topo_links = <<>> /\ outfile = <<>> /\ err = ""

CallLinkTupple ==
  /\ pc = "call"
  /\ ret' = <<get_link_tupple(call[1], call[2], call[3], call[4]),
              get_link_tupple(call[3], call[4], call[1], call[2])>>
  /\ pc' = "returned"
  /\ UNCHANGED <<devices, lab_device_names, di, ii, nodes, device_vendors,
                 connected_interfaces, links, topo_links, outfile, err, call>>

NextCanon == CallLinkTupple

SpecCanon == InitCanon /\ [][NextCanon]_vars

----------------------------------------------------------------------------
(* What the properties speak of *)

\* The names recorded as scoped for a device.
Scoped(device_name) == Lookup(connected_interfaces, device_name, <<>>)

InScope(device_name, interface_name) ==
  \E k \in 1..Len(Scoped(device_name)) : Scoped(device_name)[k] = interface_name

\* The lines of the start script that run in a device's namespace.
DeviceLines(device_name) == SelectSeq(outfile, LAMBDA l : l.device = device_name)

\* The provisioning actions of a device: its lines but the blank ones.
DeviceActions(device_name) ==
  SelectSeq(outfile, LAMBDA l : l.device = device_name /\ l.op # "blank")

\* The lines written for interface i of a device.
InterfaceActions(device_name, i) ==
  SelectSeq(outfile, LAMBDA l : l.device = device_name /\ l.src = i)

\* The positions of those lines in the script.
InterfacePositions(device_name, i) ==
  {p \in 1..Len(outfile) : outfile[p].device = device_name /\ outfile[p].src = i}

\* The start script has begun the k-th device.
HeadDone(k) ==
  \/ pc \in {"dump", "done"}
  \/ pc \in {"synth", "raised"} /\ (di > k \/ (di = k /\ ii > 0))

\* The start script has completed interface i of the k-th device.
InterfaceDone(k, i) ==
  \/ pc \in {"dump", "done"}
  \/ pc \in {"synth", "raised"} /\ (di > k \/ (di = k /\ ii > i))

ScanDone == pc \in {"render", "synth", "dump", "done"}

InventoryNames == {devices[k].name : k \in 1..Len(devices)}

----------------------------------------------------------------------------
(* Link canonicalization and the link set *)

\* C1: get_link_tupple(A, iA, B, iB) and get_link_tupple(B, iB, A, iA) return the
\* same tuple for every pair of endpoints, the two on one device included.
C1_Symmetric == pc = "returned" => ret[1] = ret[2]

\* The tuples of the link set that join two endpoints.
LinksOfPair(a_dev, a_int, b_dev, b_int) ==
  {t \in links : t = <<a_dev, a_int, b_dev, b_int>> \/ t = <<b_dev, b_int, a_dev, a_int>>}

\* Interface i of device k names interface j of device m as its connected endpoint.
Names(k, i, m, j) ==
  LET ce == devices[k].interfaces[i].connected_endpoints
  IN /\ ce # <<>> /\ Len(ce[1]) > 0
     /\ ce[1][1] = devices[m].name
     /\ ce[1][2] = devices[m].interfaces[j].name

\* C2: once the inventory is scanned, two interfaces that name each other, both
\* devices requested, have exactly one tuple in the link set, also when they are
\* on the same device.
C2_OneTuplePerPair ==
  ScanDone =>
    \A k, m \in 1..Len(devices) :
      \A i \in 1..Len(devices[k].interfaces), j \in 1..Len(devices[m].interfaces) :
        ( /\ <<k, i>> # <<m, j>>
          /\ Names(k, i, m, j) /\ Names(m, j, k, i)
          /\ devices[k].name \in lab_device_names
          /\ devices[m].name \in lab_device_names )
        => Cardinality(LinksOfPair(devices[k].name, devices[k].interfaces[i].name,
                                   devices[m].name, devices[m].interfaces[j].name)) = 1

\* C3 as stated: both endpoint devices of every tuple are requested devices.
C3_BothEndpointsRequested ==
  \A t \in links : t[1] \in lab_device_names /\ t[3] \in lab_device_names

\* C3 amended: every tuple joins a device of the inventory to a requested peer
\* device; only the peer is guarded, so both endpoints are requested devices
\* when every device of the inventory is.
C3_PeerRequested ==
  /\ \A t \in links :
       \/ t[1] \in InventoryNames /\ t[3] \in lab_device_names
       \/ t[3] \in InventoryNames /\ t[1] \in lab_device_names
  /\ InventoryNames \subseteq lab_device_names => C3_BothEndpointsRequested

\* A scanned device that was not requested is an endpoint of a link.
C3_Witness ==
  /\ ScanDone
  /\ \E t \in links :
       \/ t[1] \in InventoryNames \ lab_device_names /\ t[3] \in lab_device_names
       \/ t[3] \in InventoryNames \ lab_device_names /\ t[1] \in lab_device_names

\* The interface the builder is about to scan has no link in the topology: no
\* connected endpoint, an endpoint that is no interface, or a peer not requested.
AtUnlinkedInterface ==
  /\ pc = "scan" /\ ii > 0
  /\ LET ce == devices[di].interfaces[ii].connected_endpoints
     IN \/ ce = <<>>
        \/ Len(ce[1]) = 0
        \/ ce[1][1] \notin lab_device_names

\* Every name recorded as scoped for a device is an endpoint of a tuple.
ScopedAreEndpoints ==
  \A d \in DOMAIN connected_interfaces :
    \A k \in 1..Len(connected_interfaces[d]) :
      \E t \in links : \/ t[1] = d /\ t[2] = connected_interfaces[d][k]
                       \/ t[3] = d /\ t[4] = connected_interfaces[d][k]

\* C6: scanning an interface with no connected endpoint or with a peer that is
\* not requested changes neither the link set nor the scoped names, and every
\* scoped name of a device is an endpoint of a tuple of the link set.
C6_ScopeFiltering ==
  [][ /\ AtUnlinkedInterface => UNCHANGED <<links, connected_interfaces>>
      /\ ScopedAreEndpoints' ]_vars

\* The scan is over: it passed an interface whose peer is not requested and
\* recorded a scoped interface.
C6_Witness ==
  /\ ScanDone
  /\ connected_interfaces # <<>>
  /\ \E k \in 1..Len(devices) : \E i \in 1..Len(devices[k].interfaces) :
       LET ce == devices[k].interfaces[i].connected_endpoints
       IN ce # <<>> /\ Len(ce[1]) > 0 /\ ce[1][1] \notin lab_device_names

----------------------------------------------------------------------------
(* The start script *)

\* C4: whatever the inventory holds, link building, link rendering and the
\* start script complete without raising.
C4_NeverRaises == pc # "raised"

HasParent(interface) == interface.parent # <<>>

ParentInScope(device, interface) ==
  HasParent(interface) /\ InScope(device.name, interface.parent[1])

Addressed(interface) == interface.ip_addresses # <<>>

\* C5 as stated: an interface with a parent that is not in scope gets no action,
\* whatever its own name is.
C5_ParentGate ==
  \A k \in 1..Len(devices) : \A i \in 1..Len(devices[k].interfaces) :
    LET device == devices[k]
        interface == device.interfaces[i]
    IN (HasParent(interface) /\ ~ParentInScope(device, interface))
       => InterfaceActions(device.name, i) = <<>>

\* C5 amended: an interface with a parent that is not in scope gets no action
\* unless its own name is in scope or is lo0; an addressed interface whose own
\* name is in scope or is lo0 gets its add-address actions, one per address,
\* on a device that is no switch, whether or not its parent is in scope.
C5_ParentGateUnlessDirect ==
  \A k \in 1..Len(devices) : \A i \in 1..Len(devices[k].interfaces) :
    LET device == devices[k]
        interface == device.interfaces[i]
        own == InScope(device.name, interface.name) \/ interface.name = LO0
        actions == InterfaceActions(device.name, i)
    IN /\ (HasParent(interface) /\ ~ParentInScope(device, interface) /\ ~own)
          => actions = <<>>
       /\ ( /\ HasParent(interface) /\ ~ParentInScope(device, interface) /\ own
            /\ device.role # "asw" /\ InterfaceDone(k, i) )
          => /\ Len(actions) = Len(interface.ip_addresses)
             /\ \A n \in 1..Len(actions) :
                  actions[n].op = "addr" /\ actions[n].address = interface.ip_addresses[n]

\* The script is complete; it passed an addressed sub-interface whose parent is
\* not in scope and wrote nothing for it, and it passed an addressed interface
\* with a parent out of scope whose own name is in scope and wrote its address.
C5_Witness ==
  /\ pc = "done"
  /\ \E k \in 1..Len(devices) : \E i, j \in 1..Len(devices[k].interfaces) :
       LET device == devices[k]
           a == device.interfaces[i]
           b == device.interfaces[j]
       IN /\ device.role # "asw"
          /\ Addressed(a) /\ HasParent(a) /\ ~ParentInScope(device, a)
          /\ ~InScope(device.name, a.name) /\ a.name # LO0
          /\ InterfaceActions(device.name, i) = <<>>
          /\ Addressed(b) /\ HasParent(b) /\ ~ParentInScope(device, b)
          /\ InScope(device.name, b.name)
          /\ InterfaceActions(device.name, j) # <<>>

\* The actions of a VLAN sub-interface: create, one add-address per address in
\* the inventory's order, set-link-up, under the translated names.
IsVlanBlock(actions, interface) ==
  LET n == Len(interface.ip_addresses)
      child == get_valid_juniper_name(interface.name)
  IN /\ Len(actions) = n + 2
     /\ actions[1].op = "vlan"
     /\ actions[1].interface = child
     /\ actions[1].parent = get_valid_juniper_name(interface.parent[1])
     /\ IsIntLiteral(SplitLast(child, "."))
     /\ actions[1].vlan = IntValue(SplitLast(child, "."))
     /\ \A a \in 1..n : /\ actions[a + 1].op = "addr"
                        /\ actions[a + 1].interface = child
                        /\ actions[a + 1].address = interface.ip_addresses[a]
     /\ actions[n + 2].op = "up"
     /\ actions[n + 2].interface = child

\* The lines of an interface follow one another in the script.
Contiguous(device_name, i) ==
  \A p, r \in InterfacePositions(device_name, i) :
    \A q \in p..r : q \in InterfacePositions(device_name, i)

\* What C7 requires of interface i of device k once the script has passed it.
VlanOrdered(k, i) ==
  LET device == devices[k]
      interface == device.interfaces[i]
      actions == InterfaceActions(device.name, i)
  IN /\ actions = <<>> \/ IsVlanBlock(actions, interface)
     /\ Contiguous(device.name, i)
     /\ InterfaceDone(k, i) => actions # <<>>

C8_SwitchExemption ==
  \A k \in 1..Len(devices) :
    /\ devices[k].role = "asw" => DeviceLines(devices[k].name) = <<>>
    /\ (devices[k].role # "asw" /\ HeadDone(k)) => DeviceActions(devices[k].name) # <<>>

\* The script is complete: a switch with a scoped, addressed interface has no
\* line, and a device of an unrecognized role, without node entry, has a sequence.
C8_Witness ==
  /\ pc = "done"
  /\ \E k, m \in 1..Len(devices) :
       /\ devices[k].role = "asw"
       /\ \E i \in 1..Len(devices[k].interfaces) :
            /\ Addressed(devices[k].interfaces[i])
            /\ InScope(devices[k].name, devices[k].interfaces[i].name)
       /\ DeviceLines(devices[k].name) = <<>>
       /\ devices[m].role \notin {"server", "asw", "cr"}
       /\ devices[m].name \notin DOMAIN nodes
       /\ DeviceActions(devices[m].name) # <<>>

\* C9: the sequence of every device that is no switch starts with set-arp-ignore,
\* also when no interface of it has an address, holds no second one, and its
\* other actions come in the order of the interfaces they are for.
C9_ActionOrdering ==
  \A k \in 1..Len(devices) :
    (devices[k].role # "asw" /\ HeadDone(k)) =>
      LET actions == DeviceActions(devices[k].name)
      IN /\ actions # <<>>
         /\ actions[1].op = "arp"
         /\ \A n \in 2..Len(actions) :
              /\ actions[n].op # "arp"
              /\ actions[n].src \in 1..Len(devices[k].interfaces)
         /\ \A n, m \in 2..Len(actions) : n < m => actions[n].src <= actions[m].src

\* The script is complete: one device has actions for two of its interfaces and
\* another, without addressed interface, has its set-arp-ignore.
C9_Witness ==
  /\ pc = "done"
  /\ \E k, m \in 1..Len(devices) :
       /\ \E i, j \in 1..Len(devices[k].interfaces) :
            /\ i < j
            /\ InterfaceActions(devices[k].name, i) # <<>>
            /\ InterfaceActions(devices[k].name, j) # <<>>
       /\ \A i \in 1..Len(devices[m].interfaces) : ~Addressed(devices[m].interfaces[i])
       /\ Len(DeviceActions(devices[m].name)) = 1

\* The endpoints of the topology's link list.
RenderedEndpoints ==
  {topo_links[k].endpoints[e] : k \in 1..Len(topo_links), e \in 1..2}

\* C10: on a device that is no switch, the name in the add-address actions of an
\* addressed interface in scope is the name its endpoint has in the link list.
C10_SameName ==
  pc = "done" =>
    \A k \in 1..Len(devices) : \A i \in 1..Len(devices[k].interfaces) :
      LET device == devices[k]
          interface == device.interfaces[i]
          actions == InterfaceActions(device.name, i)
      IN ( /\ device.role # "asw" /\ Addressed(interface)
           /\ InScope(device.name, interface.name) )
         => \A n \in 1..Len(actions) :
              actions[n].op = "addr"
              => Endpoint(device.name, actions[n].interface) \in RenderedEndpoints

====
